---- MODULE Spec2Model ----
(***************************************************************************)
(* Model of the contract reminder engine of backend/server.py:             *)
(* the reminder sweep (check_and_send_reminders), its manual trigger       *)
(* (POST /send-reminders), the renewal endpoint, and the urgency tiers     *)
(* used for the subject and the body of a reminder e-mail.                 *)
(*                                                                         *)
(* Time is a counter of ticks; a calendar date is a day number and a       *)
(* datetime is a tick, so that datetime.date() is DateOf.  The coroutines  *)
(* of the event loop interleave at their awaits only: every action below   *)
(* is the code between two awaits, together with the database operation    *)
(* that ends it.                                                           *)
(***************************************************************************)
EXTENDS Integers, FiniteSets, Sequences, TLC

\* ------------------------------------------------------------------ bounds
NumContracts == 2
TicksPerDay == 2
MaxTime == 3
DaysRange == 45

\* ------------------------------------------------------- program constants
ReminderWindow == 30
CriticalWindow == 7
ListLimit == 1000
PollSeconds == 60
CooldownSeconds == 300
Null == -1
Unknown == "unknown@example.com"

Ids == 1..NumContracts
Sweeps == {"task1", "task2"}
Statuses == {"Active", "Expired", "Renewed"}
Emails == {Unknown, "client@example.com"}
StartDate == 0 - 1
ExpiryDates == {0, ReminderWindow + 1}

VARIABLES
    now,        \* the wall clock, in ticks
    store,      \* db.contracts: id -> stored document
    sweep,      \* per background task: the frame of check_and_send_reminders
    lastSend,   \* history: per contract, the latest send_email call
    ev,         \* history: what the latest step did
    tierIn,     \* urgency classification: the expiry date classified
    tierOut,    \* urgency classification: the result
    calcIn,     \* expiry calculation: the start date and tenure texts
    calcOut,    \* expiry calculation: the result
    renewal,    \* history: per contract, today's renewal far beyond the window
    sched,      \* the scheduler thread: the frame of run_scheduler
    position,   \* per contract, its place in the collection's natural order
    credentials \* whether GMAIL_EMAIL and GMAIL_APP_PASSWORD are both set

\* what the deployment fixes
fixed == <<position, credentials>>

vars == <<now, store, sweep, lastSend, ev, tierIn, tierOut, calcIn, calcOut,
          renewal, sched, fixed>>

\* datetime.date(): the calendar day of a timestamp
DateOf(t) == t \div TicksPerDay

\* datetime.now(timezone.utc).date()
Today == DateOf(now)

\* ----------------------------------------------------------- pure helpers

\* Contract.expiry_after_start: the validator of the stored record
ContractValidates(rec) == rec.expiry_date > rec.start_date

\* days_until_expiry = (contract.expiry_date - today).days
DaysUntilExpiry(rec, today) == rec.expiry_date - today

\* variant: a reminder recorded today does not block another one
ShouldSendReminderSameDay(rec, today) ==
    /\ DaysUntilExpiry(rec, today) <= ReminderWindow
    /\ \/ rec.last_reminder_sent = Null
       \/ DateOf(rec.last_reminder_sent) <= today

\* variant: the reminder window is not looked at
ShouldSendReminderNoWindow(rec, today) ==
    \/ rec.last_reminder_sent = Null
    \/ DateOf(rec.last_reminder_sent) < today

\* should_send_reminder, as the sweep computes it
ShouldSendReminder(rec, today) ==
    /\ DaysUntilExpiry(rec, today) <= ReminderWindow
    /\ \/ rec.last_reminder_sent = Null
       \/ DateOf(rec.last_reminder_sent) < today

\* the condition of the status update to Expired
PastDue(rec, today) ==
    DaysUntilExpiry(rec, today) <= 0 /\ rec.status # "Expired"

\* variant: the critical subject stops one day short of the critical window
ReminderSubjectStrict(d) ==
    IF d <= 0 THEN "URGENT - Contract EXPIRED"
    ELSE IF d < CriticalWindow THEN "CRITICAL - Contract Expires in"
    ELSE "Contract Expiry Reminder"

\* the subject line of the reminder
ReminderSubject(d) ==
    IF d <= 0 THEN "URGENT - Contract EXPIRED"
    ELSE IF d <= CriticalWindow THEN "CRITICAL - Contract Expires in"
    ELSE "Contract Expiry Reminder"

\* create_reminder_email: urgency_text; beyond the window no branch binds it
\* and rendering raises
UrgencyText(d) ==
    IF d <= 0 THEN "EXPIRED"
    ELSE IF d <= CriticalWindow THEN "CRITICAL"
    ELSE IF d <= ReminderWindow THEN "WARNING"
    ELSE "raise"

\* send_email: False at once when the credentials are missing; else True on
\* delivery, False on every failure it catches
SendEmailResults(to) == IF credentials THEN BOOLEAN ELSE {FALSE}

\* ------------------------------------------------------------------ state

\* the frame of a sweep that is not running
\* (delivered and unavailable are history: the send_email calls of this sweep
\* that returned True, and those that logged the missing credentials)
IdleSweep == [pc |-> "idle", today |-> 0, contracts |-> <<>>,
              reminder_count |-> 0, email_sent |-> FALSE,
              delivered |-> 0, unavailable |-> 0]

\* no renewal far beyond the window today
NoRenewal == [far |-> FALSE, seen |-> {}]

\* the tick of a day from which 09:00 is past
JobTick == 1

\* run_scheduler before its first poll, the job set for the first 09:00
\* (fired, raised and started are history: the job function was called, the
\* latest poll raised, the job has put a sweep on an event loop)
IdleScheduler == [pc |-> "poll", wait |-> 0, next_run |-> JobTick,
                  fired |-> FALSE, raised |-> FALSE, started |-> FALSE]

NoSend == [day |-> Null, ok |-> FALSE]

NoEvent == [kind |-> "none", s |-> "", c |-> 0, to |-> "", ok |-> FALSE,
            today |-> 0,
            days |-> 0, lrs |-> Null, pastdue |-> FALSE, stale |-> FALSE,
            prev |-> NoSend, subject |-> "", urgency |-> "",
            count |-> 0, remaining |-> 0, returned |-> <<>>,
            new_expiry_date |-> 0, code |-> 0]

NoTier == [done |-> FALSE, due |-> FALSE, subject |-> "", urgency |-> ""]

\* None, returned where a text is expected
None == <<>>

\* calculate_expiry_date called with nothing, and not called
NoCalc == [start_date_str |-> <<>>, tenure_str |-> <<>>]
NotCalled == [called |-> FALSE, result |-> None, number |-> Null, branch |-> ""]

\* a document as create_contract stores it
CreatedContract(c) ==
    [id : {c}, contact_email : Emails, start_date : {StartDate},
     expiry_date : ExpiryDates, status : Statuses, last_reminder_sent : {Null}]

InitStores ==
    {st \in [Ids -> UNION {CreatedContract(c) : c \in Ids}] :
        \A c \in Ids : st[c].id = c}

Init ==
    /\ now = 0
    /\ store \in InitStores
    /\ sweep = [s \in Sweeps |-> IdleSweep]
    /\ lastSend = [c \in Ids |-> NoSend]
    /\ ev = NoEvent
    /\ tierIn = 0
    /\ tierOut = NoTier
    /\ calcIn = NoCalc
    /\ calcOut = NotCalled
    /\ renewal = [c \in Ids |-> NoRenewal]
    /\ sched = IdleScheduler
    /\ position = [c \in Ids |-> c]
    /\ credentials = TRUE

InFlight(s) == sweep[s].pc \notin {"idle", "done"}

\* find().to_list(None): the documents, in the collection's order; the store
\* maps the ids that have a document to their documents
RECURSIVE ToList(_, _)
ToList(st, n) ==
    IF n = 0 THEN <<>>
    ELSE IF n \in DOMAIN st THEN Append(ToList(st, n - 1), st[n])
    ELSE ToList(st, n - 1)

\* ------------------------------------------------------------- the sweep

\* the for loop takes the next contract of the snapshot, or ends; the field
\* contracts holds what the iteration has not consumed yet
NextContract(sw) ==
    [sw EXCEPT !.contracts = Tail(@),
               !.email_sent = FALSE,
               !.pc = IF Tail(sw.contracts) = <<>> THEN "done" ELSE "check"]

\* variant: the exception leaves the loop and ends the sweep
RaiseEndsSweep(sw) == [sw EXCEPT !.pc = "done"]

\* variant: the exception is logged and the loop body goes on to the status
\* update
RaiseGoesOn(sw) ==
    IF DaysUntilExpiry(Head(sw.contracts), sw.today) <= 0
       /\ Head(sw.contracts).status # "Expired"
    THEN [sw EXCEPT !.pc = "write_status"]
    ELSE NextContract(sw)

\* except Exception in the loop body: logged, continue
RaiseInLoop(sw) == NextContract(sw)

\* after the e-mail step: the status update if past due, else the next contract
AfterReminder(sw) ==
    IF PastDue(Head(sw.contracts), sw.today)
    THEN [sw EXCEPT !.pc = "write_status"]
    ELSE NextContract(sw)

\* variant: the timestamp update follows the send whatever it returned
AfterSendAlwaysStamp(sw, email_sent) ==
    [sw EXCEPT !.email_sent = email_sent, !.pc = "write_lrs"]

\* if email_sent: the timestamp update comes next; else the failure is logged
AfterSend(sw, email_sent) ==
    IF email_sent
    THEN [sw EXCEPT !.email_sent = TRUE, !.pc = "write_lrs"]
    ELSE AfterReminder([sw EXCEPT !.email_sent = FALSE])

\* variant: the update's filter matches every document
SetLastReminderAll(st, c, t) ==
    [x \in DOMAIN st |-> [st[x] EXCEPT !.last_reminder_sent = t]]

\* update_one({"id": c}, {"$set": {"last_reminder_sent": t}})
SetLastReminder(st, c, t) ==
    IF c \in DOMAIN st THEN [st EXCEPT ![c].last_reminder_sent = t] ELSE st

\* variant: an update that inserts the document when its filter matches none
SetExpiredUpsert(st, c) ==
    IF c \in DOMAIN st THEN [st EXCEPT ![c].status = "Expired"]
    ELSE [x \in DOMAIN st \cup {c} |->
             IF x = c
             THEN [id |-> c, contact_email |-> Unknown, start_date |-> StartDate,
                   expiry_date |-> 0, status |-> "Expired",
                   last_reminder_sent |-> Null]
             ELSE st[x]]

\* update_one({"id": c}, {"$set": {"status": "Expired"}}): a filter that
\* matches no document changes nothing
SetExpired(st, c) ==
    IF c \in DOMAIN st THEN [st EXCEPT ![c].status = "Expired"] ELSE st

\* what check_and_send_reminders hands to its caller: it ends after logging
\* reminder_count, without a return statement, so the caller gets None
SweepReturn(sw) == Null

\* what a step of the sweep with frame sw, in task s, did on the contract it
\* is at
Event(kind, s, sw, ok) ==
    LET rec == Head(sw.contracts)
    IN  [NoEvent EXCEPT !.kind = kind, !.s = s, !.c = rec.id, !.ok = ok,
                        !.to = rec.contact_email,
                        !.today = sw.today,
                        !.days = DaysUntilExpiry(rec, sw.today),
                        !.lrs = rec.last_reminder_sent,
                        !.pastdue = PastDue(rec, sw.today),
                        !.count = sw.reminder_count,
                        !.remaining = Len(sw.contracts)]

\* POST /send-reminders queues the sweep; it starts by reading the date
TriggerReminders(s) ==
    /\ ~InFlight(s)
    /\ sweep' = [sweep EXCEPT ![s] =
                   [IdleSweep EXCEPT !.pc = "load", !.today = Today]]
    /\ ev' = NoEvent
    /\ UNCHANGED <<now, store, lastSend, tierIn, tierOut, calcIn, calcOut, renewal, sched, fixed>>

\* variant: the failure of the read leaves the coroutine as an exception
LoadFailureEscapes(sw) == [sw EXCEPT !.pc = "raised"]

\* except Exception around the whole sweep: the failure is logged and the
\* coroutine returns
LoadFailed(sw) == [sw EXCEPT !.pc = "done"]

\* contracts = await db.contracts.find().to_list(None); a failure of the read
\* is caught by the outer handler, which ends the sweep
LoadContracts(s) ==
    /\ sweep[s].pc = "load"
    /\ \E ok \in BOOLEAN :
         /\ sweep' = [sweep EXCEPT ![s] =
                     IF ok
                     THEN [@ EXCEPT !.pc = IF DOMAIN store = {} THEN "done"
                                          ELSE "check",
                                    !.contracts = ToList(store, NumContracts),
                                    !.reminder_count = 0]
                     ELSE LoadFailed(@)]
         /\ renewal' = [c \in Ids |->
                          IF ok /\ renewal[c].far
                          THEN [renewal[c] EXCEPT !.seen = @ \cup {s}]
                          ELSE renewal[c]]
    /\ ev' = NoEvent
    /\ UNCHANGED <<now, store, lastSend, tierIn, tierOut, calcIn, calcOut, sched, fixed>>

\* one pass of the loop body up to its first await: validation, the reminder
\* decision, and the (blocking) send_email call
ProcessContract(s) ==
    /\ sweep[s].pc = "check"
    /\ LET sw == sweep[s]
           rec == Head(sw.contracts)
           c == rec.id
           d == DaysUntilExpiry(rec, sw.today)
       IN  IF ~ContractValidates(rec)
           THEN /\ sweep' = [sweep EXCEPT ![s] = RaiseInLoop(sw)]
                /\ ev' = Event("invalid", s, sw, FALSE)
                /\ UNCHANGED lastSend
           ELSE IF ~ShouldSendReminder(rec, sw.today)
           THEN /\ sweep' = [sweep EXCEPT ![s] = NextContract(sw)]
                /\ ev' = [Event("not_due", s, sw, TRUE)
                            EXCEPT !.prev = lastSend[c]]
                /\ UNCHANGED lastSend
           ELSE IF rec.contact_email = Unknown
           THEN /\ sweep' = [sweep EXCEPT ![s] = NextContract(sw)]
                /\ ev' = Event("skip", s, sw, TRUE)
                /\ UNCHANGED lastSend
           ELSE \E email_sent \in SendEmailResults(rec.contact_email) :
                      /\ sweep' = [sweep EXCEPT ![s] = AfterSend(
                            [sw EXCEPT !.delivered =
                                           IF email_sent THEN @ + 1 ELSE @,
                                       !.unavailable =
                                           IF credentials THEN @ ELSE @ + 1],
                            email_sent)]
                      /\ ev' = [Event("send", s, sw, email_sent)
                                  EXCEPT !.prev = lastSend[c],
                                         !.subject = ReminderSubject(d),
                                         !.urgency = UrgencyText(d),
                                         !.stale =
                                            /\ c \in DOMAIN store
                                            /\ store[c].last_reminder_sent # Null
                                            /\ DateOf(store[c].last_reminder_sent)
                                                 = sw.today]
                      /\ lastSend' = [lastSend EXCEPT ![c] =
                            [day |-> Today, ok |-> email_sent]]
    /\ UNCHANGED <<now, store, tierIn, tierOut, calcIn, calcOut, renewal, sched, fixed>>

\* the timeout of the SMTP connection: smtplib.SMTP(host, port) is given
\* none, so the socket blocks without limit
SmtpTimeout == Null

\* send_email does not return: the transport accepts the connection and
\* then stays silent; with no timeout the call, made inside the coroutine,
\* blocks the sweep for good
SendHangs(s) ==
    /\ sweep[s].pc = "check"
    /\ credentials
    /\ SmtpTimeout = Null
    /\ LET sw == sweep[s]
           rec == Head(sw.contracts)
       IN  /\ ContractValidates(rec)
           /\ ShouldSendReminder(rec, sw.today)
           /\ rec.contact_email # Unknown
           /\ sweep' = [sweep EXCEPT ![s] = [sw EXCEPT !.pc = "blocked"]]
           /\ ev' = Event("hang", s, sw, FALSE)
    /\ UNCHANGED <<now, store, lastSend, tierIn, tierOut, calcIn, calcOut, renewal, sched, fixed>>

\* await update_one({"id": ...}, {"$set": {"last_reminder_sent": now}}),
\* then reminder_count += 1; a failure of the write raises in the loop body
WriteLastReminder(s) ==
    /\ sweep[s].pc = "write_lrs"
    /\ LET sw == sweep[s]
           rec == Head(sw.contracts)
           c == rec.id
       IN  \E ok \in BOOLEAN :
             /\ ev' = Event("stamp", s, sw, ok)
             /\ IF ok
                THEN /\ store' = SetLastReminder(store, c, now)
                     /\ sweep' = [sweep EXCEPT ![s] =
                           AfterReminder([sw EXCEPT !.reminder_count = @ + 1])]
                ELSE /\ store' = store
                     /\ sweep' = [sweep EXCEPT ![s] = RaiseInLoop(sw)]
    /\ UNCHANGED <<now, lastSend, tierIn, tierOut, calcIn, calcOut, renewal, sched, fixed>>

\* await update_one({"id": ...}, {"$set": {"status": "Expired"}})
WriteStatus(s) ==
    /\ sweep[s].pc = "write_status"
    /\ LET sw == sweep[s]
           rec == Head(sw.contracts)
           c == rec.id
       IN  \E ok \in BOOLEAN :
             /\ ev' = Event("mark", s, sw, ok)
             /\ IF ok
                THEN /\ store' = SetExpired(store, c)
                     /\ sweep' = [sweep EXCEPT ![s] = NextContract(sw)]
                ELSE /\ store' = store
                     /\ sweep' = [sweep EXCEPT ![s] = RaiseInLoop(sw)]
    /\ UNCHANGED <<now, lastSend, tierIn, tierOut, calcIn, calcOut, renewal, sched, fixed>>

\* ------------------------------------------------------------ environment

\* the wall clock advances
Tick ==
    /\ now < MaxTime
    /\ now' = now + 1
    /\ renewal' = IF DateOf(now + 1) # Today
                  THEN [c \in Ids |-> NoRenewal] ELSE renewal
    /\ ev' = NoEvent
    /\ UNCHANGED <<store, sweep, lastSend, tierIn, tierOut, calcIn, calcOut, sched, fixed>>

RenewalEmails == {"", "client@example.com"}

\* variant: the stored document is returned as it is
ResponseUnchecked(rec) == TRUE

\* return Contract(**parse_from_mongo(...)): the document read back after the
\* update passes the model's validator, or the call answers 500
ResponseValidates(rec) == ContractValidates(rec)

\* variant: the renewal keeps the reminder timestamp
RenewFieldsKeepReminder(rec, new_expiry_date, contact_email) ==
    [rec EXCEPT !.expiry_date = new_expiry_date,
                !.status = "Active",
                !.contact_email =
                    IF contact_email # "" THEN contact_email ELSE @]

\* {"$set": update_data} of the renewal: the new expiry date, status Active,
\* the reminder timestamp reset, and the contact e-mail if one was given
RenewFields(rec, new_expiry_date, contact_email) ==
    [rec EXCEPT !.expiry_date = new_expiry_date,
                !.status = "Active",
                !.last_reminder_sent = Null,
                !.contact_email =
                    IF contact_email # "" THEN contact_email ELSE @]

\* variant: a request for an id without a document answers as a success
NotFoundAsSuccess(kind, c) ==
    [NoEvent EXCEPT !.kind = kind, !.c = c, !.ok = TRUE, !.code = 200]

\* raise HTTPException(status_code=404): the answer to a request for an id
\* that has no document
NotFound(kind, c) ==
    [NoEvent EXCEPT !.kind = kind, !.c = c, !.ok = FALSE, !.code = 404]

\* POST /contracts/{id}/renew: 404 when find_one finds no document; else
\* ContractRenewal.future_date, then one update; the document is read back
\* and validated for the response
RenewContract(c, new_expiry_date, contact_email) ==
    /\ new_expiry_date > Today
    /\ IF c \notin DOMAIN store
       THEN /\ ev' = NotFound("renew", c)
            /\ UNCHANGED <<store, lastSend, renewal>>
       ELSE /\ store' = [store EXCEPT ![c] =
                           RenewFields(@, new_expiry_date, contact_email)]
            /\ lastSend' = [lastSend EXCEPT ![c] = NoSend]
            /\ renewal' = [renewal EXCEPT ![c] =
                              [far |-> new_expiry_date - Today > ReminderWindow,
                               seen |-> {}]]
            /\ ev' = [NoEvent EXCEPT
                        !.kind = "renew", !.c = c,
                        !.to = contact_email,
                        !.new_expiry_date = new_expiry_date,
                        !.ok = ResponseValidates(store'[c]),
                        !.code = IF ResponseValidates(store'[c])
                                 THEN 200 ELSE 500]
    /\ UNCHANGED <<now, sweep, tierIn, tierOut, calcIn, calcOut, sched, fixed>>

\* an optional field of a request body: <<>> when absent, <<v>> when given
Given(x) == x # <<>>

UpdateStartDates == {<<>>, <<0>>}
UpdateExpiryDates == {<<>>} \cup {<<d>> : d \in ExpiryDates}
UpdateStatuses == {<<>>, <<"Active">>}
UpdateEmails == {<<>>, <<"client@example.com">>}

\* {"$set": update_data}: the fields the request gave
SetFields(rec, start_date, expiry_date, status, contact_email) ==
    [rec EXCEPT
       !.start_date = IF Given(start_date) THEN start_date[1] ELSE @,
       !.expiry_date = IF Given(expiry_date) THEN expiry_date[1] ELSE @,
       !.status = IF Given(status) THEN status[1] ELSE @,
       !.contact_email = IF Given(contact_email) THEN contact_email[1] ELSE @]

\* PUT /contracts/{id}: 404 when find_one finds no document; the dates are
\* compared only when both are given
\* (422); then one update, which may fail (500), and the document is read
\* back and validated for the response
UpdateContract(c, start_date, expiry_date, status, contact_email) ==
    /\ IF c \notin DOMAIN store
       THEN /\ ev' = NotFound("update", c)
            /\ store' = store
       ELSE \E written \in BOOLEAN :
         LET rejected == /\ Given(start_date) /\ Given(expiry_date)
                         /\ expiry_date[1] <= start_date[1]
         IN  /\ store' = IF rejected \/ ~written THEN store
                         ELSE [store EXCEPT ![c] = SetFields(@, start_date,
                                      expiry_date, status, contact_email)]
             /\ ev' = [NoEvent EXCEPT
                         !.kind = "update", !.c = c,
                         !.ok = /\ ~rejected /\ written
                                /\ ResponseValidates(store'[c]),
                         !.code = IF rejected THEN 422
                                  ELSE IF written /\ ResponseValidates(store'[c])
                                       THEN 200 ELSE 500]
    /\ UNCHANGED <<now, sweep, lastSend, tierIn, tierOut, calcIn, calcOut, renewal, sched, fixed>>

\* find().to_list(1000): at most the first ListLimit documents of the
\* collection, in its order
RECURSIVE ToListLimit(_, _)
ToListLimit(st, n) ==
    IF n = 0 THEN <<>>
    ELSE IF n \in DOMAIN st /\ position[n] <= ListLimit
         THEN Append(ToListLimit(st, n - 1), st[n])
         ELSE ToListLimit(st, n - 1)

\* variant: the listing treats the expiry day itself as past
ListingExpiresSameDay(rec, today) ==
    rec.expiry_date <= today /\ rec.status # "Expired"

\* the auto-update condition of the listing
ListingExpires(rec, today) ==
    rec.expiry_date < today /\ rec.status # "Expired"

\* the documents of docs before index stop, as the listing returns them
ListedUpTo(docs, stop, today) ==
    [i \in 1..(stop - 1) |->
        IF ListingExpires(docs[i], today)
        THEN [docs[i] EXCEPT !.status = "Expired"] ELSE docs[i]]

\* GET /contracts: each listed document is validated and, when past its
\* expiry date, updated to Expired; the first document that does not validate,
\* or the first update that fails, ends the call with 500, the updates made
\* so far persisted
GetContracts ==
    LET docs == ToListLimit(store, NumContracts)
        n == Len(docs)
        invalid == {i \in 1..n : ~ContractValidates(docs[i])}
        firstBad == IF invalid = {} THEN n + 1
                    ELSE CHOOSE i \in invalid : \A j \in invalid : i <= j
        canFail == {i \in 1..n : i < firstBad /\ ListingExpires(docs[i], Today)}
    IN  \E fail \in {0} \cup canFail :
          LET stop == IF fail # 0 THEN fail ELSE firstBad
              out == ListedUpTo(docs, stop, Today)
          IN  /\ store' = [c \in DOMAIN store |->
                             IF \E i \in 1..(stop - 1) : out[i].id = c
                             THEN out[CHOOSE i \in 1..(stop - 1) : out[i].id = c]
                             ELSE store[c]]
              /\ ev' = [NoEvent EXCEPT
                          !.kind = "list", !.today = Today,
                          !.ok = (stop = n + 1),
                          !.returned = IF stop = n + 1 THEN out ELSE <<>>]
              /\ UNCHANGED <<now, sweep, lastSend, tierIn, tierOut, calcIn, calcOut, renewal,
                             sched, fixed>>

\* GET /contracts/{id}: 404 when find_one finds no document; else the
\* document is validated for the response (500 when it does not validate)
GetContract(c) ==
    /\ ev' = IF c \notin DOMAIN store THEN NotFound("get", c)
             ELSE [NoEvent EXCEPT
                     !.kind = "get", !.c = c,
                     !.ok = ResponseValidates(store[c]),
                     !.code = IF ResponseValidates(store[c]) THEN 200 ELSE 500,
                     !.returned = IF ResponseValidates(store[c])
                                  THEN <<store[c]>> ELSE <<>>]
    /\ UNCHANGED <<now, store, sweep, lastSend, tierIn, tierOut, calcIn, calcOut,
                   renewal, sched, fixed>>

\* delete_one({"id": c}): the store without the document of c
DeleteOne(st, c) == [x \in DOMAIN st \ {c} |-> st[x]]

\* DELETE /contracts/{id}: delete_one, and 404 when it deleted nothing
DeleteContract(c) ==
    /\ store' = DeleteOne(store, c)
    /\ ev' = IF c \notin DOMAIN store THEN NotFound("delete", c)
             ELSE [NoEvent EXCEPT !.kind = "delete", !.c = c, !.ok = TRUE,
                                  !.code = 200]
    /\ UNCHANGED <<now, sweep, lastSend, tierIn, tierOut, calcIn, calcOut,
                   renewal, sched, fixed>>

\* ------------------------------------------------------------ the scheduler

\* the thread of run_scheduler, and the thread of the server's event loop
SchedulerThread == "scheduler"
ServerThread == "server"

\* asyncio.create_task needs the running event loop of the calling thread
HasRunningLoop(thread) == thread = ServerThread

\* variant: the exception ends the loop
SchedulerErrorEscapes(sc) == [sc EXCEPT !.pc = "exited", !.raised = TRUE]

\* except Exception in the scheduler loop: logged, time.sleep(300)
OnSchedulerError(sc) ==
    [sc EXCEPT !.pc = "sleep", !.wait = CooldownSeconds, !.raised = TRUE]

\* schedule.run_pending() then time.sleep(60): a due job calls
\* asyncio.create_task(check_and_send_reminders()) in the scheduler thread;
\* without a running loop the call raises before any sweep exists, and
\* whether the job stays due is left to the schedule library
RunPending ==
    /\ sched.pc = "poll"
    /\ IF now >= sched.next_run
       THEN IF HasRunningLoop(SchedulerThread)
            THEN /\ \A u \in Sweeps : ~InFlight(u)
                 /\ sweep' = [sweep EXCEPT !["task1"] =
                        [IdleSweep EXCEPT !.pc = "load", !.today = Today]]
                 /\ sched' = [sched EXCEPT
                        !.pc = "sleep", !.wait = PollSeconds,
                        !.next_run = @ + TicksPerDay,
                        !.fired = TRUE, !.raised = FALSE, !.started = TRUE]
            ELSE /\ \E again \in BOOLEAN :
                      sched' = OnSchedulerError(
                         [sched EXCEPT !.fired = TRUE,
                             !.next_run = IF again THEN @ ELSE @ + TicksPerDay])
                 /\ UNCHANGED sweep
       ELSE /\ sched' = [sched EXCEPT !.pc = "sleep", !.wait = PollSeconds,
                                      !.raised = FALSE]
            /\ UNCHANGED sweep
    /\ ev' = NoEvent
    /\ UNCHANGED <<now, store, lastSend, tierIn, tierOut, calcIn, calcOut, renewal, fixed>>

\* time.sleep returns and the loop polls again
WakeUp ==
    /\ sched.pc = "sleep"
    /\ sched' = [sched EXCEPT !.pc = "poll", !.wait = 0]
    /\ ev' = NoEvent
    /\ UNCHANGED <<now, store, sweep, lastSend, tierIn, tierOut, calcIn, calcOut, renewal, fixed>>

\* ------------------------------------------------- urgency classification

\* the reminder decision and the wording for a contract expiring on tierIn,
\* as one pass of the loop body computes them
ComposeReminder ==
    /\ ~tierOut.done
    /\ LET rec == [id |-> 1, contact_email |-> "client@example.com",
                   start_date |-> tierIn - 1, expiry_date |-> tierIn,
                   status |-> "Active", last_reminder_sent |-> Null]
           d == DaysUntilExpiry(rec, Today)
           due == ShouldSendReminder(rec, Today)
       IN  tierOut' = [done |-> TRUE, due |-> due,
                       subject |-> IF due THEN ReminderSubject(d) ELSE "",
                       urgency |-> IF due THEN UrgencyText(d) ELSE ""]
    /\ UNCHANGED <<now, store, sweep, lastSend, ev, tierIn, calcIn, calcOut, renewal, sched, fixed>>

\* ---------------------------------------------------------- specifications

Next ==
    \/ \E s \in Sweeps : TriggerReminders(s)
    \/ \E s \in Sweeps : LoadContracts(s)
    \/ \E s \in Sweeps : ProcessContract(s)
    \/ \E s \in Sweeps : WriteLastReminder(s)
    \/ \E s \in Sweeps : WriteStatus(s)
    \/ Tick
    \/ \E c \in Ids, d \in ExpiryDates, e \in RenewalEmails : RenewContract(c, d, e)

\* every trigger, overlapping or not
Spec == Init /\ [][Next]_vars

\* a trigger that arrives while no sweep is in flight
TriggerAlone ==
    /\ \A u \in Sweeps : ~InFlight(u)
    /\ TriggerReminders("task1")

NextSeq ==
    \/ TriggerAlone
    \/ \E s \in Sweeps : LoadContracts(s)
    \/ \E s \in Sweeps : ProcessContract(s)
    \/ \E s \in Sweeps : WriteLastReminder(s)
    \/ \E s \in Sweeps : WriteStatus(s)
    \/ Tick
    \/ \E c \in Ids, d \in ExpiryDates, e \in RenewalEmails : RenewContract(c, d, e)

\* sweeps that do not overlap, renewals and the clock in between
SpecSeq == Init /\ [][NextSeq]_vars

NextPar ==
    \/ \E s \in Sweeps : TriggerReminders(s)
    \/ \E s \in Sweeps : LoadContracts(s)
    \/ \E s \in Sweeps : ProcessContract(s)
    \/ \E s \in Sweeps : WriteLastReminder(s)
    \/ \E s \in Sweeps : WriteStatus(s)

NextOps ==
    \/ TriggerAlone
    \/ \E s \in Sweeps : LoadContracts(s)
    \/ \E s \in Sweeps : ProcessContract(s)
    \/ \E s \in Sweeps : WriteLastReminder(s)
    \/ \E s \in Sweeps : WriteStatus(s)
    \/ Tick
    \/ \E c \in Ids, ed \in UpdateExpiryDates :
          UpdateContract(c, <<>>, ed, <<>>, <<>>)

\* contract 1 as created in any way, beside deliverable contracts that
\* expire today
InitOps ==
    /\ Init
    /\ \A c \in Ids \ {1} :
          /\ store[c].contact_email # Unknown
          /\ store[c].expiry_date = 0
          /\ store[c].status = "Active"

\* non-overlapping sweeps, between requests that move an expiry date
SpecOps == InitOps /\ [][NextOps]_vars

Positions == {1, 2, ListLimit, ListLimit + 1}

\* the contracts followed may stand anywhere in the collection
InitCrud ==
    /\ now = 0
    /\ store \in InitStores
    /\ sweep = [s \in Sweeps |-> IdleSweep]
    /\ lastSend = [c \in Ids |-> NoSend]
    /\ ev = NoEvent
    /\ tierIn = 0
    /\ tierOut = NoTier
    /\ calcIn = NoCalc
    /\ calcOut = NotCalled
    /\ renewal = [c \in Ids |-> NoRenewal]
    /\ sched = IdleScheduler
    /\ position \in {p \in [Ids -> Positions] :
                        \A c, d \in Ids : c < d => p[c] < p[d]}
    /\ credentials = TRUE

NextCrud ==
    \/ \E c \in Ids, sd \in UpdateStartDates, ed \in UpdateExpiryDates,
          st \in UpdateStatuses, e \in UpdateEmails :
            UpdateContract(c, sd, ed, st, e)
    \/ \E c \in Ids, d \in ExpiryDates, e \in RenewalEmails :
          RenewContract(c, d, e)
    \/ GetContracts
    \/ Tick

\* the requests that write contracts, without sweeps
SpecCrud == InitCrud /\ [][NextCrud]_vars

\* deliverable contracts that expire today
InitSched ==
    /\ Init
    /\ \A c \in Ids :
          /\ store[c].contact_email # Unknown
          /\ store[c].expiry_date = 0
          /\ store[c].status = "Active"

NextSched ==
    \/ RunPending
    \/ WakeUp
    \/ TriggerAlone
    \/ \E s \in Sweeps : LoadContracts(s)
    \/ \E s \in Sweeps : ProcessContract(s)
    \/ \E s \in Sweeps : WriteLastReminder(s)
    \/ \E s \in Sweeps : WriteStatus(s)
    \/ Tick

\* the scheduler thread beside the server and its manual trigger
SpecSched == InitSched /\ [][NextSched]_vars

\* a step of the sweep of task s
SweepStep(s) ==
    \/ LoadContracts(s)
    \/ ProcessContract(s)
    \/ WriteLastReminder(s)
    \/ WriteStatus(s)

NextHang ==
    \/ TriggerAlone
    \/ \E s \in Sweeps : SweepStep(s)
    \/ \E s \in Sweeps : SendHangs(s)

\* non-overlapping sweeps over a transport that may stay silent
SpecHang == Init /\ [][NextHang]_vars

\* a deployment with or without the mail credentials
InitDeployed ==
    /\ now = 0
    /\ store \in InitStores
    /\ sweep = [s \in Sweeps |-> IdleSweep]
    /\ lastSend = [c \in Ids |-> NoSend]
    /\ ev = NoEvent
    /\ tierIn = 0
    /\ tierOut = NoTier
    /\ calcIn = NoCalc
    /\ calcOut = NotCalled
    /\ renewal = [c \in Ids |-> NoRenewal]
    /\ sched = IdleScheduler
    /\ position = [c \in Ids |-> c]
    /\ credentials \in BOOLEAN

NextDeployed ==
    \/ TriggerAlone
    \/ \E s \in Sweeps : SweepStep(s)
    \/ Tick

\* non-overlapping sweeps, the mail credentials set or missing
SpecDeployed == InitDeployed /\ [][NextDeployed]_vars

\* two triggers whose sweeps overlap, within one clock tick
SpecPar == Init /\ [][NextPar]_vars

InitTier ==
    /\ now \in 0..MaxTime
    /\ store = [c \in Ids |->
                  [id |-> c, contact_email |-> Unknown, start_date |-> StartDate,
                   expiry_date |-> 0, status |-> "Active",
                   last_reminder_sent |-> Null]]
    /\ sweep = [s \in Sweeps |-> IdleSweep]
    /\ lastSend = [c \in Ids |-> NoSend]
    /\ ev = NoEvent
    /\ tierIn \in (0 - DaysRange)..DaysRange
    /\ tierOut = NoTier
    /\ calcIn = NoCalc
    /\ calcOut = NotCalled
    /\ renewal = [c \in Ids |-> NoRenewal]
    /\ sched = IdleScheduler
    /\ position = [c \in Ids |-> c]
    /\ credentials = TRUE

\* the urgency classification alone, over a range of expiry dates
SpecTier == InitTier /\ [][ComposeReminder]_vars

\* sweeps keep being triggered, each sweep keeps taking its steps, the clock
\* keeps running, and a repository read or write that is retried again and
\* again eventually succeeds
Fairness ==
    /\ WF_vars(TriggerAlone)
    /\ WF_vars(Tick)
    /\ \A s \in Sweeps :
          /\ SF_vars(LoadContracts(s) /\ sweep'[s].pc = "check")
          /\ WF_vars(ProcessContract(s))
          /\ SF_vars(WriteLastReminder(s) /\ ev'.ok)
          /\ SF_vars(WriteStatus(s) /\ ev'.ok)

\* non-overlapping sweeps that keep running
SpecLive == Init /\ [][NextSeq]_vars /\ Fairness

NextInvalid ==
    \/ TriggerAlone
    \/ \E s \in Sweeps : SweepStep(s)
    \/ \E c \in Ids, sd \in UpdateStartDates :
          UpdateContract(c, sd, <<>>, <<>>, <<>>)
    \/ GetContracts

\* non-overlapping sweeps and listings, between requests that move a start
\* date alone, the contracts standing anywhere in the collection
SpecInvalid == InitCrud /\ [][NextInvalid]_vars

\* the collection holds documents for some of the ids, as created
InitStore ==
    /\ now = 0
    /\ store \in UNION {{st \in [P -> UNION {CreatedContract(c) : c \in Ids}] :
                            \A c \in P : st[c].id = c} : P \in SUBSET Ids}
    /\ sweep = [s \in Sweeps |-> IdleSweep]
    /\ lastSend = [c \in Ids |-> NoSend]
    /\ ev = NoEvent
    /\ tierIn = 0
    /\ tierOut = NoTier
    /\ calcIn = NoCalc
    /\ calcOut = NotCalled
    /\ renewal = [c \in Ids |-> NoRenewal]
    /\ sched = IdleScheduler
    /\ position = [c \in Ids |-> c]
    /\ credentials = TRUE

NextStore ==
    \/ TriggerAlone
    \/ \E s \in Sweeps : SweepStep(s)
    \/ \E c \in Ids : GetContract(c)
    \/ \E c \in Ids, ed \in UpdateExpiryDates :
          UpdateContract(c, <<>>, ed, <<>>, <<>>)
    \/ \E c \in Ids, d \in ExpiryDates : RenewContract(c, d, "")
    \/ \E c \in Ids : DeleteContract(c)

\* requests by id, for ids with and without a document, between and during
\* non-overlapping sweeps
SpecStore == InitStore /\ [][NextStore]_vars

\* ------------------------------------------------- expiry date from a tenure

\* datetime.MINYEAR and datetime.MAXYEAR: the years date() accepts
MinYear == 1
MaxYear == 9999

DigitChars == <<"0", "1", "2", "3", "4", "5", "6", "7", "8", "9">>
Digits == {DigitChars[i] : i \in 1..10}
DigitValue(ch) == (CHOOSE i \in 1..10 : DigitChars[i] = ch) - 1

UpperCase == <<"A", "B", "C", "D", "E", "F", "G", "H", "I", "J", "K", "L", "M",
               "N", "O", "P", "Q", "R", "S", "T", "U", "V", "W", "X", "Y", "Z">>
LowerCase == <<"a", "b", "c", "d", "e", "f", "g", "h", "i", "j", "k", "l", "m",
               "n", "o", "p", "q", "r", "s", "t", "u", "v", "w", "x", "y", "z">>

\* str.lower(), a text being the sequence of its characters
Lower(text) ==
    [i \in 1..Len(text) |->
        IF \E k \in 1..26 : UpperCase[k] = text[i]
        THEN LowerCase[CHOOSE k \in 1..26 : UpperCase[k] = text[i]]
        ELSE text[i]]

\* word in text
Contains(text, word) ==
    \E i \in 1..(Len(text) - Len(word) + 1) :
        SubSeq(text, i, i + Len(word) - 1) = word

\* re.findall(r'\d+', text): the first match, <<>> when there is none
FirstNumber(text) ==
    IF \A i \in 1..Len(text) : text[i] \notin Digits
    THEN <<>>
    ELSE LET first == CHOOSE i \in 1..Len(text) :
                          /\ text[i] \in Digits
                          /\ \A j \in 1..(i - 1) : text[j] \notin Digits
             last == CHOOSE j \in first..Len(text) :
                          /\ \A k \in first..j : text[k] \in Digits
                          /\ j = Len(text) \/ text[j + 1] \notin Digits
         IN  SubSeq(text, first, last)

RECURSIVE ToInt(_)
\* int() of a run of digits
ToInt(run) ==
    IF run = <<>> THEN 0
    ELSE ToInt(SubSeq(run, 1, Len(run) - 1)) * 10 + DigitValue(run[Len(run)])

IsLeap(y) == (y % 4 = 0) /\ ((y % 100 # 0) \/ (y % 400 = 0))

DaysInMonth(y, m) ==
    IF m = 2 THEN (IF IsLeap(y) THEN 29 ELSE 28)
    ELSE IF m \in {4, 6, 9, 11} THEN 30 ELSE 31

\* no date: what stands for a date whose construction raised
NoDate == [year |-> 0, month |-> 0, day |-> 0]

DateExists(y, m, d) ==
    /\ y \in MinYear..MaxYear
    /\ m \in 1..12
    /\ d \in 1..DaysInMonth(y, m)

\* date(y, m, d) with no day of its own: the constructor raises for any date
\* the calendar lacks, a clamping one is what it is not
MakeDateClamped(y, m, d) ==
    IF y \in MinYear..MaxYear /\ m \in 1..12 /\ d >= 1
    THEN [year |-> y, month |-> m,
          day |-> IF d > DaysInMonth(y, m) THEN DaysInMonth(y, m) ELSE d]
    ELSE NoDate

\* date(y, m, d): the date, NoDate when the constructor raises ValueError
MakeDate(y, m, d) ==
    IF DateExists(y, m, d) THEN [year |-> y, month |-> m, day |-> d] ELSE NoDate

DaysBeforeYear(y) ==
    (y - 1) * 365 + ((y - 1) \div 4) - ((y - 1) \div 100) + ((y - 1) \div 400)

RECURSIVE DaysBeforeMonth(_, _)
DaysBeforeMonth(y, m) ==
    IF m = 1 THEN 0 ELSE DaysBeforeMonth(y, m - 1) + DaysInMonth(y, m - 1)

\* date.toordinal()
ToOrdinal(dt) == DaysBeforeYear(dt.year) + DaysBeforeMonth(dt.year, dt.month) + dt.day

MaxOrdinal == DaysBeforeYear(MaxYear + 1)

\* date.fromordinal(n), for n in 1..MaxOrdinal
FromOrdinal(n) ==
    LET y == CHOOSE yy \in (n \div 366)..((n \div 365) + 1) :
                 DaysBeforeYear(yy) < n /\ n <= DaysBeforeYear(yy + 1)
        m == CHOOSE mm \in 1..12 :
                 /\ DaysBeforeMonth(y, mm) < n - DaysBeforeYear(y)
                 /\ n - DaysBeforeYear(y) <= DaysBeforeMonth(y, mm) + DaysInMonth(y, mm)
    IN  [year |-> y, month |-> m,
         day |-> n - DaysBeforeYear(y) - DaysBeforeMonth(y, m)]

\* date + timedelta(days): the date, NoDate when the sum raises OverflowError
AddDays(dt, days) ==
    IF ToOrdinal(dt) + days \in 1..MaxOrdinal
    THEN FromOrdinal(ToOrdinal(dt) + days)
    ELSE NoDate

\* the decimal digits of n, at least width of them
RECURSIVE Padded(_, _)
Padded(n, width) ==
    IF width <= 1 /\ n < 10 THEN <<DigitChars[n + 1]>>
    ELSE Append(Padded(n \div 10, width - 1), DigitChars[(n % 10) + 1])

\* date.isoformat(): YYYY-MM-DD
IsoFormat(dt) ==
    Padded(dt.year, 4) \o <<"-">> \o Padded(dt.month, 2) \o <<"-">> \o Padded(dt.day, 2)

\* datetime.fromisoformat(text).date() of a YYYY-MM-DD text: the date, NoDate
\* when the text is not of that form or names no date
FromIsoFormat(text) ==
    IF /\ Len(text) = 10
       /\ text[5] = "-" /\ text[8] = "-"
       /\ \A i \in {1, 2, 3, 4, 6, 7, 9, 10} : text[i] \in Digits
    THEN MakeDate(ToInt(SubSeq(text, 1, 4)), ToInt(SubSeq(text, 6, 7)),
                  ToInt(SubSeq(text, 9, 10)))
    ELSE NoDate

YearWords == {<<"y", "e", "a", "r">>, <<"y", "r">>, <<"a", "n", "n", "u", "a", "l">>}
MonthWords == {<<"m", "o", "n", "t", "h">>, <<"m", "o">>,
               <<"m", "o", "n", "t", "h", "l", "y">>}
DayWords == {<<"d", "a", "y">>, <<"d", "a", "i", "l", "y">>}
WeekWords == {<<"w", "e", "e", "k">>, <<"w", "e", "e", "k", "l", "y">>}

AnyWord(text, words) == \E word \in words : Contains(text, word)

\* the if/elif chain tested on the text as given, not lowered
TenureBranchCaseSensitive(tenure_str) ==
    IF AnyWord(tenure_str, YearWords) THEN "year"
    ELSE IF AnyWord(tenure_str, MonthWords) THEN "month"
    ELSE IF AnyWord(tenure_str, DayWords) THEN "day"
    ELSE IF AnyWord(tenure_str, WeekWords) THEN "week"
    ELSE "else"

\* the branch of the if/elif chain that a tenure text takes
TenureBranch(tenure_str) ==
    LET tenure_lower == Lower(tenure_str)
    IN  IF AnyWord(tenure_lower, YearWords) THEN "year"
        ELSE IF AnyWord(tenure_lower, MonthWords) THEN "month"
        ELSE IF AnyWord(tenure_lower, DayWords) THEN "day"
        ELSE IF AnyWord(tenure_lower, WeekWords) THEN "week"
        ELSE "else"

\* the month branch, one month short
AddMonthsOffByOne(start_date, number) ==
    MakeDate(start_date.year + ((start_date.month + number) \div 12),
             ((start_date.month + number) % 12) + 1,
             start_date.day)

AddMonths(start_date, number) ==
    MakeDate(start_date.year + ((start_date.month + number - 1) \div 12),
             ((start_date.month + number - 1) % 12) + 1,
             start_date.day)

AddYears(start_date, number) ==
    MakeDate(start_date.year + number, start_date.month, start_date.day)

\* the week branch counting a week as six days
AddWeeksShort(start_date, number) == AddDays(start_date, 6 * number)

AddWeeks(start_date, number) == AddDays(start_date, 7 * number)

\* the date a branch computes, NoDate when computing it raises
ExpiryOf(branch, start_date, number) ==
    CASE branch = "year" -> AddYears(start_date, number)
      [] branch = "month" -> AddMonths(start_date, number)
      [] branch = "day" -> AddDays(start_date, number)
      [] branch = "week" -> AddWeeks(start_date, number)
      [] OTHER -> AddMonths(start_date, number)

\* calculate_expiry_date: the ISO text of the expiry date, or None
CalculateExpiryDate(start_date_str, tenure_str) ==
    LET start_date == FromIsoFormat(start_date_str)
        numbers == FirstNumber(tenure_str)
    IN  IF start_date = NoDate THEN None
        ELSE IF numbers = <<>> THEN None
        ELSE LET expiry_date == ExpiryOf(TenureBranch(tenure_str), start_date,
                                         ToInt(numbers))
             IN  IF expiry_date = NoDate THEN None ELSE IsoFormat(expiry_date)

\* the start dates and tenure texts calculate_expiry_date is called with
StartDateTexts ==
    {<<"2", "0", "2", "4", "-", "0", "2", "-", "1", "0">>,
     <<"2", "0", "2", "4", "-", "0", "1", "-", "3", "1">>,
     <<"2", "0", "2", "4", "-", "0", "2", "-", "2", "9">>,
     <<"2", "0", "2", "3", "-", "1", "2", "-", "1", "5">>,
     <<"2", "0", "2", "3", "-", "0", "2", "-", "3", "0">>,
     <<"9", "9", "9", "9", "-", "1", "2", "-", "3", "1">>,
     <<"1", "0", "/", "0", "2", "/", "2", "0", "2", "4">>,
     <<"2", "0", "2", "3", "-", "1", "0", "-", "3", "1">>}

TenureTexts ==
    {<<"2", " ", "y", "e", "a", "r", "s">>,
     <<"1", "8", " ", "M", "o", "n", "t", "h", "s">>,
     <<"t", "e", "r", "m", " ", "o", "f", " ", "4", "5", " ", "d", "a", "y", "s">>,
     <<"3", " ", "w", "e", "e", "k", "s">>,
     <<"1", "2", " ", "m", "o", "n", "t", "h", "s">>,
     <<"1", " ", "Y", "R">>,
     <<"a", "n", "n", "u", "a", "l">>,
     <<"6">>,
     <<"0", " ", "d", "a", "y", "s">>,
     <<"0", " ", "m", "o", "n", "t", "h", "s">>,
     <<"2", " ", "w", "e", "e", "k", "s", " ", "(", "1", "4", " ", "d", "a", "y", "s", ")">>,
     <<"1", "0", "0", "0", "0", " ", "y", "e", "a", "r", "s">>,
     <<"1", "3", " ", "m", "o">>,
     <<"4", " ", "w", "e", "e", "k", "l", "y">>,
     <<"3", "0", " ", "d", "a", "i", "l", "y">>,
     <<"1", " ", "Y", "e", "a", "r", " ", "6", " ", "m", "o", "n", "t", "h", "s">>,
     <<"9", " ", "W", "e", "e", "k", "d", "a", "y", "s">>,
     <<"0", " ", "y", "r">>}

\* whether a call gets as far as the if/elif chain
ReachesBranch(start_date_str, tenure_str) ==
    FromIsoFormat(start_date_str) # NoDate /\ FirstNumber(tenure_str) # <<>>

\* one call of calculate_expiry_date, with the count and the branch it took
CalculateExpiry ==
    /\ ~calcOut.called
    /\ calcOut' = [called |-> TRUE,
                   result |-> CalculateExpiryDate(calcIn.start_date_str,
                                                  calcIn.tenure_str),
                   number |-> IF ReachesBranch(calcIn.start_date_str,
                                               calcIn.tenure_str)
                              THEN ToInt(FirstNumber(calcIn.tenure_str))
                              ELSE Null,
                   branch |-> IF ReachesBranch(calcIn.start_date_str,
                                               calcIn.tenure_str)
                              THEN TenureBranch(calcIn.tenure_str)
                              ELSE ""]
    /\ UNCHANGED <<now, store, sweep, lastSend, ev, tierIn, tierOut, calcIn,
                   renewal, sched, fixed>>

InitTenure ==
    /\ now = 0
    /\ store = [c \in Ids |->
                  [id |-> c, contact_email |-> Unknown, start_date |-> StartDate,
                   expiry_date |-> 0, status |-> "Active",
                   last_reminder_sent |-> Null]]
    /\ sweep = [s \in Sweeps |-> IdleSweep]
    /\ lastSend = [c \in Ids |-> NoSend]
    /\ ev = NoEvent
    /\ tierIn = 0
    /\ tierOut = NoTier
    /\ calcIn \in [start_date_str : StartDateTexts, tenure_str : TenureTexts]
    /\ calcOut = NotCalled
    /\ renewal = [c \in Ids |-> NoRenewal]
    /\ sched = IdleScheduler
    /\ position = [c \in Ids |-> c]
    /\ credentials = TRUE

\* calculate_expiry_date alone, over start dates and tenure texts
SpecTenure == InitTenure /\ [][CalculateExpiry]_vars

\* ------------------------------------------------------------------ claims

\* the sweep whose step ev records
EvSweep == sweep[ev.s]

\* ev records a step of the loop body that raised
EvRaised ==
    \/ ev.kind = "invalid"
    \/ ev.kind \in {"stamp", "mark"} /\ ~ev.ok

\* the step ev records finished its contract: the loop is at the next one
EvMovedOn == Len(EvSweep.contracts) = ev.remaining - 1

C2_DedupByTimestamp ==
    /\ ev.kind \in {"send", "skip"} =>
         /\ ev.days <= 30
         /\ ev.lrs = Null \/ DateOf(ev.lrs) < ev.today
         /\ ~ev.stale
    /\ ev.kind = "not_due" =>
         \/ ev.days > 30
         \/ ev.lrs # Null /\ DateOf(ev.lrs) >= ev.today

\* C2 witness: a contract of the Expired tier, reminded earlier today, is
\* passed over.
C2_Witness ==
    /\ ev.kind = "not_due"
    /\ ev.days <= 0
    /\ ev.lrs # Null /\ DateOf(ev.lrs) = ev.today

\* C3: across sweeps that do not overlap, send_email is called at most once
\* per contract and calendar day between renewals, whatever became of the
\* earlier call.
C3_OneAttemptPerDay ==
    ev.kind = "send" => ev.prev.day # lastSend[ev.c].day

\* C4: sweeps are serialized, so that no sweep calls send_email for a
\* contract whose stored timestamp another sweep has set to today since the
\* first one read its snapshot.
C4_NoSendOnStaleSnapshot ==
    ev.kind = "send" => ~ev.stale

\* C5: a sweep that has finished a contract with a deliverable address,
\* days remaining <= 0 and a status other than Expired, without a write
\* raising, has persisted status Expired: also when the reminder was not due.
C5_ExpiryMarkingIndependent ==
    /\ ev.kind \in {"not_due", "send", "stamp", "mark"}
    /\ ev.to # Unknown
    /\ ev.pastdue
    /\ EvMovedOn
    /\ ~EvRaised
    => store[ev.c].status = "Expired"

\* C6: for a contract with the unknown address the sweep never calls
\* send_email and never writes the timestamp, and it persists status Expired
\* when days remaining <= 0 and the status is not Expired.
C6_UnknownAddress ==
    /\ ev.kind \in {"send", "stamp"} => ev.to # Unknown
    /\ ev.kind \in {"skip", "not_due"} /\ ev.to = Unknown /\ ev.pastdue
         => store[ev.c].status = "Expired"

\* the kinds of step a sweep takes on a contract
SweepKinds == {"invalid", "not_due", "skip", "send", "stamp", "mark"}

C9_FailureKeepsEligible ==
    /\ ev.kind = "send" /\ ~ev.ok =>
         /\ EvSweep.pc # "write_lrs"
         /\ IF ev.pastdue
            THEN EvSweep.pc = "write_status" /\ ~EvMovedOn
            ELSE EvSweep.pc \in {"check", "done"} /\ EvMovedOn
    /\ ev.kind = "not_due" /\ ev.days <= 30 => ev.prev = NoSend \/ ev.prev.ok

\* C9 witness: send_email is called for a contract on the day after the
\* call for it returned False.
C9_Witness ==
    /\ ev.kind = "send"
    /\ ev.prev.day # Null /\ ~ev.prev.ok
    /\ ev.prev.day + 1 = ev.today
    /\ store[ev.c].last_reminder_sent = ev.lrs

\* C10: with d = expiry date - today, a reminder is due and worded EXPIRED
\* for d <= 0, CRITICAL for 1..7, as a plain reminder with a WARNING body for
\* 8..30, and no reminder is composed for d > 30.
C10_UrgencyTiers ==
    tierOut.done =>
        LET d == tierIn - Today
        IN  /\ d <= 0 =>
                 /\ tierOut.due
                 /\ tierOut.subject = "URGENT - Contract EXPIRED"
                 /\ tierOut.urgency = "EXPIRED"
            /\ 1 <= d /\ d <= 7 =>
                 /\ tierOut.due
                 /\ tierOut.subject = "CRITICAL - Contract Expires in"
                 /\ tierOut.urgency = "CRITICAL"
            /\ 8 <= d /\ d <= 30 =>
                 /\ tierOut.due
                 /\ tierOut.subject = "Contract Expiry Reminder"
                 /\ tierOut.urgency = "WARNING"
            /\ d > 30 =>
                 /\ ~tierOut.due
                 /\ tierOut.subject = "" /\ tierOut.urgency = ""

\* C10 witness: a contract expiring today is worded EXPIRED.
C10_Witness ==
    /\ tierOut.done
    /\ tierIn - Today = 0
    /\ tierOut.urgency = "EXPIRED"

\* C7: status convergence. A stored contract whose expiry date is before
\* today and whose status is not Expired eventually has status Expired, when
\* sweeps keep running and repository writes eventually succeed. Set aside
\* are a renewal, which moves the expiry date past today, and the contract
\* whose reminder is recorded today, which is not due again before the next
\* day's sweep.
C7_StatusConvergence ==
    \A c \in Ids :
        (store[c].expiry_date < Today /\ store[c].status # "Expired")
            ~> \/ store[c].status = "Expired"
               \/ store[c].expiry_date >= Today
               \/ /\ store[c].last_reminder_sent # Null
                  /\ DateOf(store[c].last_reminder_sent) >= Today

\* C11: a step of a sweep on a contract that it read with more than 30 days
\* remaining only passes the contract over: send_email is not called and the
\* store is left as it is, whatever the contract's timestamp and status.
C11_NoReminderTerritory ==
    [][ev'.kind \in SweepKinds /\ ev'.days > ReminderWindow =>
         /\ ev'.kind = "not_due"
         /\ store' = store
         /\ lastSend' = lastSend]_vars

\* C11 witness: a contract reminded and marked Expired, whose expiry date was
\* then moved more than 30 days out, is passed over.
C11_Witness ==
    /\ ev.kind = "not_due"
    /\ ev.days > ReminderWindow
    /\ ev.lrs # Null
    /\ store[ev.c].status = "Expired"
    /\ store[ev.c].last_reminder_sent = ev.lrs

\* C12: a renewal that succeeds leaves the contract with the new expiry
\* date, status Active and no reminder timestamp, its contact e-mail replaced
\* only by one that was given, its other fields (id, start date) as they
\* were, and every other contract as it was.
C12_RenewalReset ==
    [][ev'.kind = "renew" /\ ev'.ok =>
         LET c == ev'.c
         IN  /\ store'[c].expiry_date = ev'.new_expiry_date
             /\ store'[c].status = "Active"
             /\ store'[c].last_reminder_sent = Null
             /\ store'[c].contact_email =
                   IF ev'.to = "" THEN store[c].contact_email ELSE ev'.to
             /\ store'[c].id = store[c].id
             /\ store'[c].start_date = store[c].start_date
             /\ \A d \in Ids \ {c} : store'[d] = store[d]]_vars

\* C12 witness: a contract marked Expired and reminded has been renewed
\* without a new contact e-mail, while a sweep was at another contract.
C12_Witness ==
    /\ ev.kind = "renew" /\ ev.ok /\ ev.to = ""
    /\ lastSend[ev.c] = NoSend
    /\ store[ev.c].status = "Active"
    /\ store[ev.c].last_reminder_sent = Null
    /\ store[ev.c].expiry_date = ev.new_expiry_date
    /\ \E s \in Sweeps :
         /\ sweep[s].pc = "check"
         /\ Head(sweep[s].contracts).id # ev.c
         /\ sweep[s].reminder_count = 1

\* C13: a sweep that read its snapshot after a contract was renewed, earlier
\* the same day, to an expiry date more than 30 days out only passes the
\* contract over: no send_email call, and its status and timestamp stay as
\* they are.
C13_SweepAfterRenewal ==
    [][\A s \in Sweeps :
         /\ ev'.kind \in SweepKinds /\ ev'.s = s
         /\ renewal[ev'.c].far /\ s \in renewal[ev'.c].seen
         => /\ ev'.kind = "not_due"
            /\ store'[ev'.c] = store[ev'.c]
            /\ lastSend' = lastSend]_vars

\* C13 witness: a contract renewed today, more than 30 days out, has been
\* passed over by a later sweep and is still Active without a timestamp.
C13_Witness ==
    /\ ev.kind = "not_due"
    /\ renewal[ev.c].far /\ ev.s \in renewal[ev.c].seen
    /\ ev.days > ReminderWindow
    /\ store[ev.c].status = "Active"
    /\ store[ev.c].last_reminder_sent = Null
    /\ store[ev.c].expiry_date - Today > ReminderWindow

\* C14: once the scheduler has run the daily job, a sweep has been started
\* by it (the sweep of the daily trigger exists, to be executed to
\* completion).
C14_DailyTriggerRunsSweep ==
    sched.fired => sched.started

\* C15: the scheduler loop never exits: it is polling or sleeping, for the
\* cooldown of 300 s after a poll that raised and for 60 s after one that
\* did not, and a sleep ends only in the next poll.
C15_SchedulerNeverCrashes ==
    /\ sched.pc \in {"poll", "sleep"}
    /\ sched.pc = "sleep" =>
         sched.wait = IF sched.raised THEN CooldownSeconds ELSE PollSeconds
    /\ sched.pc = "poll" => sched.wait = 0

\* C15 witness: the scheduler polls again after the cooldown that followed
\* an exception of the daily job.
C15_Witness ==
    /\ sched.pc = "poll"
    /\ sched.fired /\ sched.raised
    /\ now >= sched.next_run

\* C16: a sweep that has ended after delivering reminders has returned to its
\* caller the number of contracts whose reminder was delivered in it.
C16_SummaryCount ==
    \A s \in Sweeps :
        sweep[s].pc = "done" /\ sweep[s].delivered > 0 =>
            SweepReturn(sweep[s]) = sweep[s].delivered

\* a request that writes a contract
WriteCalls == {"update", "renew"}

\* C17: a step other than an update or renewal that answers with an error
\* leaves every contract whose expiry date is after its start date that way,
\* and the contract an update or renewal has answered for successfully has
\* its expiry date after its start date; so, the created contracts being
\* valid, calls that all succeed never leave a contract with its dates out
\* of order.
C17_DateOrder ==
    [][ev'.kind \notin WriteCalls \/ ev'.ok =>
         \A c \in Ids :
            /\ ContractValidates(store[c]) => ContractValidates(store'[c])
            /\ ev'.kind \in WriteCalls /\ ev'.c = c =>
                 ContractValidates(store'[c])]_vars

\* C17 witness: an update has succeeded on a contract whose start date is no
\* longer the one it was created with, and every contract has its dates in
\* order.
C17_Witness ==
    /\ ev.kind = "update" /\ ev.ok
    /\ store[ev.c].start_date # StartDate
    /\ \A c \in Ids : ContractValidates(store[c])

\* the listing ev records returned contract c with status st
Returned(c, st) ==
    \E i \in 1..Len(ev.returned) :
        ev.returned[i].id = c /\ ev.returned[i].status = st

\* C18: a listing that succeeds returns every stored contract whose expiry
\* date is before today with status Expired, and has that status persisted;
\* it returns every contract whose expiry date is after today with its stored
\* status, and leaves that contract as it was.
C18_ListingAutoExpires ==
    [][ev'.kind = "list" /\ ev'.ok =>
         \A c \in Ids :
            /\ store[c].expiry_date < Today =>
                 /\ store'[c].status = "Expired"
                 /\ Returned(c, "Expired")'
            /\ store[c].expiry_date > Today =>
                 /\ store'[c] = store[c]
                 /\ Returned(c, store[c].status)']_vars

\* C19: no send_email call stalls a sweep: a sweep that has started and not
\* ended always has a next step to take.
C19_SweepNeverStalls ==
    \A s \in Sweeps : InFlight(s) => ENABLED SweepStep(s)

\* C20: without the mail credentials a sweep still goes through its whole
\* snapshot, no send_email call delivers, no timestamp is written, a contract
\* with a deliverable address and days remaining <= 0 is still marked Expired
\* (unless that write raises), and the missing credentials are reported once
\* in the sweep, not once per contract.
C20_TransportUnconfigured ==
    ~credentials =>
        /\ \A s \in Sweeps :
             /\ sweep[s].pc = "done" => sweep[s].contracts = <<>>
             /\ sweep[s].pc # "write_lrs"
             /\ sweep[s].delivered = 0
             /\ sweep[s].unavailable <= 1
        /\ \A c \in Ids : store[c].last_reminder_sent = Null
        /\ /\ ev.kind \in {"send", "mark"}
           /\ ev.pastdue /\ EvMovedOn /\ ~EvRaised
           => store[ev.c].status = "Expired"


\* C21: calculate_expiry_date takes the first run of digits of the tenure text
\* as the count and returns None when the text has no digit; it chooses the
\* unit, ignoring case, by the first family with a keyword in the text, in the
\* order year {year, yr, annual}, month {month, mo, monthly}, day {day, daily},
\* week {week, weekly}, and takes month when no family has one; '2 years' is
\* (2, year), '18 Months' (18, month), 'term of 45 days' (45, day) and
\* '3 weeks' (3, week).
C21_Families ==
    <<[unit |-> "year", words |-> {<<"y", "e", "a", "r">>, <<"y", "r">>, <<"a", "n", "n", "u", "a", "l">>}],
      [unit |-> "month", words |-> {<<"m", "o", "n", "t", "h">>, <<"m", "o">>, <<"m", "o", "n", "t", "h", "l", "y">>}],
      [unit |-> "day", words |-> {<<"d", "a", "y">>, <<"d", "a", "i", "l", "y">>}],
      [unit |-> "week", words |-> {<<"w", "e", "e", "k">>, <<"w", "e", "e", "k", "l", "y">>}]>>

C21_Matches(text, k) ==
    \E word \in C21_Families[k].words : Contains(Lower(text), word)

C21_Unit(text) ==
    IF \E k \in 1..4 : C21_Matches(text, k)
    THEN C21_Families[CHOOSE k \in 1..4 :
                          /\ C21_Matches(text, k)
                          /\ \A j \in 1..(k - 1) : ~C21_Matches(text, j)].unit
    ELSE "month"

\* the count a text stands for: the value of the digits from its first digit
\* up to the next character that is no digit
RECURSIVE C21_Count(_, _)
C21_Count(text, acc) ==
    IF text = <<>> THEN acc
    ELSE IF Head(text) \in Digits
         THEN (IF Len(text) = 1 \/ text[2] \notin Digits
               THEN acc * 10 + DigitValue(Head(text))
               ELSE C21_Count(Tail(text), acc * 10 + DigitValue(Head(text))))
         ELSE C21_Count(Tail(text), acc)

\* the unit whose arithmetic a branch of the call applies
UnitApplied(out) == IF out.branch = "else" THEN "month" ELSE out.branch

C21_Examples ==
    {[text |-> <<"2", " ", "y", "e", "a", "r", "s">>, count |-> 2, unit |-> "year"],
     [text |-> <<"1", "8", " ", "M", "o", "n", "t", "h", "s">>, count |-> 18, unit |-> "month"],
     [text |-> <<"t", "e", "r", "m", " ", "o", "f", " ", "4", "5", " ", "d", "a", "y", "s">>, count |-> 45, unit |-> "day"],
     [text |-> <<"3", " ", "w", "e", "e", "k", "s">>, count |-> 3, unit |-> "week"]}

C21_TenureParsing ==
    (calcOut.called /\ FromIsoFormat(calcIn.start_date_str) # NoDate) =>
        IF \A i \in 1..Len(calcIn.tenure_str) : calcIn.tenure_str[i] \notin Digits
        THEN calcOut.result = None
        ELSE /\ calcOut.number = C21_Count(calcIn.tenure_str, 0)
             /\ UnitApplied(calcOut) = C21_Unit(calcIn.tenure_str)
             /\ \A e \in C21_Examples :
                   calcIn.tenure_str = e.text =>
                       calcOut.number = e.count /\ UnitApplied(calcOut) = e.unit

C21_Witness ==
    /\ calcOut.called
    /\ calcIn.tenure_str = <<"1", "8", " ", "M", "o", "n", "t", "h", "s">>
    /\ calcOut.branch = "month"
    /\ calcOut.result # None


\* C22: for a start date (y, m, d) and a count n, the month unit yields year
\* y + floor((m - 1 + n) / 12), month (m - 1 + n) mod 12 + 1 and day d, and the
\* year unit yields (y + n, m, d); 2024-02-10 with '12 months' yields
\* 2025-02-10, and a start in December plus 12 months stays in December of
\* the next year.
C22_Claimed(unit, start, n) ==
    IF unit = "month"
    THEN [year |-> start.year + ((start.month - 1 + n) \div 12),
          month |-> ((start.month - 1 + n) % 12) + 1,
          day |-> start.day]
    ELSE [year |-> start.year + n, month |-> start.month, day |-> start.day]

C22_MonthYearArithmetic ==
    (/\ calcOut.called
     /\ FromIsoFormat(calcIn.start_date_str) # NoDate
     /\ calcOut.number # Null
     /\ UnitApplied(calcOut) \in {"month", "year"}) =>
        LET claimed == C22_Claimed(UnitApplied(calcOut),
                                   FromIsoFormat(calcIn.start_date_str),
                                   calcOut.number)
        IN  /\ calcOut.result # None => calcOut.result = IsoFormat(claimed)
            /\ DateExists(claimed.year, claimed.month, claimed.day) =>
                   calcOut.result # None
            /\ (/\ calcIn.start_date_str = <<"2", "0", "2", "4", "-", "0", "2", "-", "1", "0">>
                /\ calcIn.tenure_str = <<"1", "2", " ", "m", "o", "n", "t", "h", "s">>) =>
                   calcOut.result = <<"2", "0", "2", "5", "-", "0", "2", "-", "1", "0">>
            /\ (/\ calcIn.start_date_str = <<"2", "0", "2", "3", "-", "1", "2", "-", "1", "5">>
                /\ calcIn.tenure_str = <<"1", "2", " ", "m", "o", "n", "t", "h", "s">>) =>
                   calcOut.result = <<"2", "0", "2", "4", "-", "1", "2", "-", "1", "5">>

C22_Witness ==
    /\ calcOut.called
    /\ calcIn.start_date_str = <<"2", "0", "2", "3", "-", "1", "2", "-", "1", "5">>
    /\ calcIn.tenure_str = <<"1", "2", " ", "m", "o", "n", "t", "h", "s">>
    /\ calcOut.result = <<"2", "0", "2", "4", "-", "1", "2", "-", "1", "5">>


\* C23: for the month and year units, calculate_expiry_date either returns a
\* date with exactly the start's day of month in the computed month and year,
\* or returns None when that date does not exist (day 31 in a 30-day month,
\* 29 February in a year that is no leap year); it never clamps the day or
\* rolls over to another one.
C23_NoSilentlyWrongDate ==
    (/\ calcOut.called
     /\ FromIsoFormat(calcIn.start_date_str) # NoDate
     /\ calcOut.number # Null
     /\ UnitApplied(calcOut) \in {"month", "year"}) =>
        LET claimed == C22_Claimed(UnitApplied(calcOut),
                                   FromIsoFormat(calcIn.start_date_str),
                                   calcOut.number)
        IN  IF DateExists(claimed.year, claimed.month, claimed.day)
            THEN /\ calcOut.result # None
                 /\ SubSeq(calcOut.result, 9, 10) = SubSeq(calcIn.start_date_str, 9, 10)
                 /\ ToInt(SubSeq(calcOut.result, 6, 7)) = claimed.month
                 /\ ToInt(SubSeq(calcOut.result, 1, 4)) = claimed.year
            ELSE calcOut.result = None

C23_Witness ==
    /\ calcOut.called
    /\ calcIn.start_date_str = <<"2", "0", "2", "4", "-", "0", "2", "-", "2", "9">>
    /\ calcIn.tenure_str = <<"1", " ", "Y", "R">>
    /\ calcOut.branch = "year"
    /\ calcOut.result = None


\* C24: for every start date and count n, the day unit yields the start plus n
\* days and the week unit the start plus 7n days, so that subtracting the same
\* duration from the result gives the start date again.
C24_Duration(out) == IF out.branch = "day" THEN out.number ELSE 7 * out.number

C24_DayWeekRoundTrip ==
    (/\ calcOut.called
     /\ FromIsoFormat(calcIn.start_date_str) # NoDate
     /\ calcOut.number # Null
     /\ calcOut.branch \in {"day", "week"}) =>
        /\ calcOut.result # None =>
              /\ FromIsoFormat(calcOut.result) # NoDate
              /\ ToOrdinal(FromIsoFormat(calcOut.result))
                     = ToOrdinal(FromIsoFormat(calcIn.start_date_str))
                           + C24_Duration(calcOut)
              /\ IsoFormat(AddDays(FromIsoFormat(calcOut.result),
                                   0 - C24_Duration(calcOut)))
                     = calcIn.start_date_str
        /\ calcOut.result = None =>
              ToOrdinal(FromIsoFormat(calcIn.start_date_str))
                  + C24_Duration(calcOut) > MaxOrdinal
        /\ (/\ calcIn.start_date_str = <<"2", "0", "2", "4", "-", "0", "1", "-", "3", "1">>
            /\ calcIn.tenure_str = <<"t", "e", "r", "m", " ", "o", "f", " ", "4", "5", " ", "d", "a", "y", "s">>) =>
               calcOut.result = <<"2", "0", "2", "4", "-", "0", "3", "-", "1", "6">>
        /\ (/\ calcIn.start_date_str = <<"2", "0", "2", "4", "-", "0", "2", "-", "1", "0">>
            /\ calcIn.tenure_str = <<"3", " ", "w", "e", "e", "k", "s">>) =>
               calcOut.result = <<"2", "0", "2", "4", "-", "0", "3", "-", "0", "2">>

C24_Witness ==
    /\ calcOut.called
    /\ calcIn.start_date_str = <<"2", "0", "2", "4", "-", "0", "2", "-", "1", "0">>
    /\ calcIn.tenure_str = <<"3", " ", "w", "e", "e", "k", "s">>
    /\ calcOut.branch = "week"
    /\ calcOut.result = <<"2", "0", "2", "4", "-", "0", "3", "-", "0", "2">>


\* C28: whenever calculate_expiry_date returns a date, that date is strictly
\* later than the start date: the count is a positive integer, and a text
\* whose first digit run is 0 gives no expiry date equal to the start date.
C28_PositiveTenure ==
    (calcOut.called /\ calcOut.result # None) =>
        ToOrdinal(FromIsoFormat(calcOut.result))
            > ToOrdinal(FromIsoFormat(calcIn.start_date_str))


\* C25: get_contract, update_contract, renew_contract and delete_contract
\* called with an id that has no document in the store answer 404 and leave
\* every stored contract unchanged; after delete_contract has succeeded for an
\* id, a later get_contract for that id answers 404: the successful delete
\* removes the document and no step brings a document for that id back.
RequestsById == {"get", "update", "renew", "delete"}

C25_MissingIds ==
    [][/\ (ev'.kind \in RequestsById /\ ev'.c \notin DOMAIN store) =>
              (ev'.code = 404 /\ store' = store)
       /\ (ev'.kind = "delete" /\ ev'.code = 200) =>
              (ev'.c \in DOMAIN store /\ ev'.c \notin DOMAIN store')
       /\ \A c \in Ids : c \notin DOMAIN store => c \notin DOMAIN store']_vars

\* a get for a contract deleted while a running sweep still holds it in its
\* snapshot
C25_Witness ==
    /\ ev.kind = "get"
    /\ ev.code = 404
    /\ ev.c \notin DOMAIN store
    /\ \E s \in Sweeps :
          /\ InFlight(s)
          /\ \E i \in 1..Len(sweep[s].contracts) :
                sweep[s].contracts[i].id = ev.c


\* C26: a sweep writes only the fields status and last_reminder_sent, each by
\* an update of that one field keyed by the contract's own id; it never
\* changes the id, contact_email, start_date or expiry_date of any contract
\* (nor its name or client, which no update of the sweep names), and it never
\* creates or deletes a contract.
C26_SweepFrame ==
    [][sweep' # sweep =>
          /\ DOMAIN store' = DOMAIN store
          /\ \A c \in DOMAIN store :
                /\ store'[c].id = store[c].id
                /\ store'[c].contact_email = store[c].contact_email
                /\ store'[c].start_date = store[c].start_date
                /\ store'[c].expiry_date = store[c].expiry_date
                /\ store'[c] # store[c] =>
                      /\ ev'.kind \in {"stamp", "mark"}
                      /\ c = ev'.c
                      /\ \/ store'[c].status = store[c].status
                         \/ store'[c].last_reminder_sent
                               = store[c].last_reminder_sent]_vars

\* a sweep has written both fields of a contract, beside an id without a
\* document
C26_Witness ==
    /\ ev.kind = "mark"
    /\ ev.ok
    /\ ev.c \in DOMAIN store
    /\ store[ev.c].status = "Expired"
    /\ store[ev.c].last_reminder_sent = now
    /\ DOMAIN store # Ids


\* C27: the only status value a sweep ever writes is Expired; a sweep that
\* overlaps no renewal and no update writes it only for a contract whose
\* expiry date is on or before the sweep's today and whose status is not
\* already Expired; and no sweep changes a contract that is Expired back.
\* Stated where no renewal and no update takes place at all.
C27_StatusWritesBySweep ==
    [][sweep' # sweep =>
          /\ \A c \in DOMAIN store :
                /\ store'[c].status # store[c].status =>
                      store'[c].status = "Expired"
                /\ store[c].status = "Expired" => store'[c].status = "Expired"
          /\ (ev'.kind = "mark" /\ ev'.ok) =>
                /\ store[ev'.c].expiry_date <= ev'.today
                /\ store[ev'.c].status # "Expired"]_vars


\* C29: whatever the interleaving of renew_contract with a sweep that loaded
\* its snapshot before the renewal, the renewal's effect survives: once both
\* have finished, the contract renewed today to an expiry date in the future
\* has status Active, not a status Expired written from the stale snapshot.
C29_RenewalSurvivesSweep ==
    \A c \in DOMAIN store :
        (/\ renewal[c].far
         /\ store[c].expiry_date > Today
         /\ \A s \in Sweeps : ~InFlight(s)) =>
            store[c].status = "Active"


\* C30: within one contract the sweep writes last_reminder_sent before
\* status; when the last_reminder_sent write raises after a delivery, the
\* status write for that contract is skipped in that sweep and the reminder
\* is not counted: the delivered reminder stays unrecorded and the contract
\* is still due in the next sweep of that day.
C30_WriteOrdering ==
    [][/\ ev'.kind = "stamp" =>
            LET sw == sweep[ev'.s]
                after == sweep'[ev'.s]
                rec == Head(sw.contracts)
            IN  /\ sw.email_sent
                /\ ev'.ok =>
                      /\ after.reminder_count = sw.reminder_count + 1
                      /\ PastDue(rec, sw.today) =>
                            /\ after.pc = "write_status"
                            /\ after.contracts = sw.contracts
                /\ ~ev'.ok =>
                      /\ store' = store
                      /\ after.reminder_count = sw.reminder_count
                      /\ after.pc # "write_status"
                      /\ after.contracts = Tail(sw.contracts)
                      /\ store[rec.id] = rec =>
                            ShouldSendReminder(store'[rec.id], sw.today)
       /\ ev'.kind = "mark" =>
            sweep'[ev'.s].contracts = Tail(sweep[ev'.s].contracts)]_vars

\* the timestamp write raised after a delivery for a contract past due: the
\* contract is neither stamped nor marked Expired
C30_Witness ==
    /\ ev.kind = "stamp"
    /\ ~ev.ok
    /\ ev.pastdue
    /\ lastSend[ev.c].ok
    /\ lastSend[ev.c].day = ev.today
    /\ store[ev.c].last_reminder_sent = Null
    /\ store[ev.c].status = "Active"
    /\ ShouldSendReminder(store[ev.c], Today)


\* C31: reminders do not depend on the status: a contract with status
\* Expired or Renewed, 30 days or less from its expiry date and with a
\* deliverable address, is sent one reminder by the first sweep that reaches
\* it on a day, day after day, until its expiry date is moved more than 30
\* days out; a sweep holds each contract once, so it sends it one reminder.
ProcessKinds == {"invalid", "not_due", "skip", "send"}

C31_RemindersIgnoreStatus ==
    [][/\ ev'.kind \in ProcessKinds =>
            LET sw == sweep[ev'.s]
                rec == Head(sw.contracts)
            IN  (/\ rec.status \in {"Expired", "Renewed"}
                 /\ ContractValidates(rec)
                 /\ rec.expiry_date - sw.today <= 30
                 /\ rec.contact_email # Unknown
                 /\ store[rec.id] = rec
                 /\ lastSend[rec.id].day # sw.today) =>
                    /\ ev'.kind = "send"
                    /\ lastSend'[rec.id].day = Today
       /\ \A s \in Sweeps :
            \A i, j \in 1..Len(sweep'[s].contracts) :
                sweep'[s].contracts[i].id = sweep'[s].contracts[j].id => i = j]_vars


\* C32: a stored contract that fails the Contract validation (its expiry
\* date not after its start date, after an update of one date alone) is
\* skipped by every sweep with no send and no write, and the sweep goes on to
\* the other contracts; the same record makes get_contracts answer 500 for
\* the whole listing instead of returning the valid contracts.
C32_InvalidStoredRecord ==
    [][/\ ev'.kind \in ProcessKinds =>
            LET sw == sweep[ev'.s]
                rec == Head(sw.contracts)
            IN  ~ContractValidates(rec) =>
                    /\ ev'.kind = "invalid"
                    /\ store' = store
                    /\ lastSend' = lastSend
                    /\ sweep'[ev'.s].contracts = Tail(sw.contracts)
                    /\ sweep'[ev'.s].reminder_count = sw.reminder_count
                    /\ sweep'[ev'.s].pc =
                          IF Tail(sw.contracts) = <<>> THEN "done" ELSE "check"
       /\ (/\ ev'.kind = "list"
           /\ \E c \in DOMAIN store : ~ContractValidates(store[c])) =>
              (~ev'.ok /\ ev'.returned = <<>>)]_vars


\* C33: the expiry day is treated differently by the two paths: on the day
\* today = expiry_date the listing leaves a status that is not Expired as it
\* is, while a sweep of that day that sends for the contract marks it Expired.
\* The sweep leaves a contract on the step that consumes it from the snapshot.
SentKinds == {"send", "stamp", "mark"}

C33_LeavesAfterSend(s) ==
    /\ ev'.kind \in SentKinds
    /\ ev'.s = s
    /\ sweep'[s].contracts = Tail(sweep[s].contracts)
    /\ Head(sweep[s].contracts).expiry_date = sweep[s].today
    /\ Head(sweep[s].contracts).id \in DOMAIN store
    /\ store[Head(sweep[s].contracts).id].expiry_date = sweep[s].today

C33_ListingKeepsStatus ==
    ev'.kind = "list" =>
        \A c \in DOMAIN store :
            store[c].expiry_date = ev'.today =>
                store'[c].status = store[c].status

C34_LoadFails(s) ==
    /\ sweep[s].pc = "load"
    /\ sweep'[s].pc # "load"
    /\ sweep'[s].contracts = <<>>
    /\ DOMAIN store # {}

C34_EntryPointNeverRaises ==
    [][\A s \in Sweeps :
          /\ C34_LoadFails(s) =>
                /\ sweep'[s].pc = "done"
                /\ ~InFlight(s)'
                /\ store' = store
                /\ lastSend' = lastSend
                /\ sweep'[s].delivered = 0
                /\ sweep'[s].reminder_count = 0
          /\ (sweep[s].pc = "done" /\ sweep'[s] # sweep[s]) =>
                sweep'[s].pc = "load"]_vars

\* the load failed: the sweep has ended although a valid contract with a
\* deliverable address was due and has had no send_email call
C34_Witness ==
    /\ now = 0
    /\ sweep["task1"].pc = "done"
    /\ sweep["task1"].delivered = 0
    /\ \E c \in DOMAIN store :
          /\ ContractValidates(store[c])
          /\ ShouldSendReminder(store[c], Today)
          /\ store[c].contact_email # Unknown
          /\ lastSend[c] = NoSend

====
